---- MODULE Spec2Model ----
(***************************************************************************)
(* Model of elevenlabs-bridge/server.js: the session registry, the HTTP    *)
(* endpoints that create and read sessions, and the per-call media bridge  *)
(* between the telephony (Twilio) socket and the agent (ElevenLabs)        *)
(* socket.                                                                 *)
(*                                                                         *)
(* Strings the code inspects character by character (serverUrl) are        *)
(* sequences of one-character strings; a part of a string the code never   *)
(* looks into (a host name, a fixed path, a uuid) is one element of the    *)
(* sequence.  Every other string is a TLA+ string.  "" (or <<>>) stands    *)
(* for every falsy value of a request field: undefined, null and the       *)
(* empty string, which the code does not tell apart.                       *)
(*                                                                         *)
(* Node runs each handler to completion, so each handler (up to its first  *)
(* await) is one action.  io is the list of side effects the last handler  *)
(* performed, in program order.                                            *)
(***************************************************************************)
EXTENDS Integers, Sequences, FiniteSets, TLC

VARIABLES
    sessionStore,   \* the Map of line 18: a sequence of [key, value] in insertion order
    uuidCount,      \* number of ids uuidv4() has returned so far
    timers,         \* pending setTimeout callbacks of line 70: [sid, due]
    now,            \* the clock, in units of TimeUnit
    createdAt,      \* history: createdAt[n] is the time the n-th session was stored
    pending,        \* provider requests awaiting their answer (the awaits of lines 88, 131)
    bridges,        \* one record per accepted /media-stream upgrade
    io              \* side effects of the last handler run, in program order

vars == <<sessionStore, uuidCount, timers, now, createdAt, pending, bridges, io>>

(***************************** bounds **************************************)
MaxSessions == 2
MaxBridges == 1
MaxTime == 3
MaxHangups == 1

(************************** program constants ******************************)
\* setTimeout(..., 3600000): one hour, in clock units of 30 minutes
TTL == 2

(***************************** strings *************************************)
StartsWith(s, p) == Len(s) >= Len(p) /\ SubSeq(s, 1, Len(p)) = p

Http == <<"h", "t", "t", "p">>
Https == <<"h", "t", "t", "p", "s">>
Wss == <<"w", "s", "s">>
SchemeSep == <<":", "/", "/">>
Host == <<"example.com">>
TwimlPath == <<"/call/twiml?sessionId=">>
MediaStreamPath == <<"/media-stream?sessionId=">>

\* serverUrl values a client may post (<<>>: missing or empty)
ServerUrls ==
    { <<>>,
      Host,
      Https \o SchemeSep \o Host,
      Http \o SchemeSep \o Host,
      Http \o <<"b", "i", "n", ".org">>,
      <<"w", "s">> \o SchemeSep \o Host }

\* the n-th value returned by uuidv4(): fresh each time
\* mutant: the generator repeats itself
UuidRepeats(n) == "u1"

Uuid(n) == "u" \o ToString(n)

(****************************** Map ****************************************)
MapKeys(m) == {m[i].key : i \in 1..Len(m)}
MapHas(m, k) == k \in MapKeys(m)
MapGet(m, k) == (CHOOSE i \in 1..Len(m) : m[i].key = k)
MapValue(m, k) == m[MapGet(m, k)].value
MapSet(m, k, v) ==
    IF MapHas(m, k)
    THEN [m EXCEPT ![MapGet(m, k)].value = v]
    ELSE Append(m, [key |-> k, value |-> v])
MapDelete(m, k) == SelectSeq(m, LAMBDA e : e.key # k)

(************************* requests and answers ****************************)
BaseRequest ==
    [ twilioAccountSid |-> "AC1", twilioAuthToken |-> "tok-AC1",
      twilioPhoneNumber |-> "+15550100", elevenLabsApiKey |-> "xi-key",
      elevenLabsAgentId |-> "agent-1", zoomDialIn |-> "+16465588656",
      meetingId |-> "", passcode |-> "", serverUrl |-> Https \o SchemeSep \o Host ]

RequiredFields ==
    { "twilioAccountSid", "twilioAuthToken", "twilioPhoneNumber",
      "elevenLabsApiKey", "elevenLabsAgentId", "zoomDialIn" }

Accounts == {"AC1", "AC2"}

\* bodies a client may post to /initiate-call
Requests ==
    { [BaseRequest EXCEPT !.serverUrl = u] : u \in ServerUrls }
    \cup { [BaseRequest EXCEPT !.meetingId = m, !.passcode = c] :
             m \in {"", "1234"}, c \in {"", "56"} }
    \cup { [BaseRequest EXCEPT ![f] = ""] : f \in RequiredFields }

\* call sids and errors the telephony provider may answer with
CallSids == {"CA1"}
ProviderErrors == { [code |-> "21211", message |-> "Invalid 'To' Phone Number"] }

\* sessionId query values of /call/twiml and /media-stream ("": no parameter)
QueryIds == {"", "bogus"} \cup {Uuid(n) : n \in 1..MaxSessions}

(****************************** effects ************************************)
EvPost(op, body) == [k |-> "request", op |-> op, body |-> body]
EvQuery(op, sessionId) == [k |-> "request", op |-> op, sessionId |-> sessionId]
EffReply(op, code, body) == [k |-> "reply", op |-> op, code |-> code, body |-> body]
EffStore(sid) == [k |-> "store", sid |-> sid]
EffTimer(sid, due) == [k |-> "setTimeout", sid |-> sid, due |-> due]
EffProvider(call) == [k |-> "provider", call |-> call]

(*************************** /initiate-call ********************************)
NormalizeServerUrl(serverUrl) ==
    IF serverUrl # <<>> /\ ~StartsWith(serverUrl, Http)
    THEN Https \o SchemeSep \o serverUrl
    ELSE serverUrl

\* mutant: the destination dial string is not checked
IsValidRequestNoDialIn(req, serverUrl) ==
    /\ serverUrl # <<>>
    /\ \A f \in RequiredFields \ {"zoomDialIn"} : req[f] # ""

IsValidRequest(req, serverUrl) ==
    /\ serverUrl # <<>>
    /\ \A f \in RequiredFields : req[f] # ""

\* mutant: the passcode is keyed in whether or not there is a meeting id
SendDigitsPasscodeAlone(meetingId, passcode) ==
    IF meetingId # ""
    THEN IF passcode # ""
         THEN "wwww" \o meetingId \o "#" \o "wwww" \o passcode \o "#"
         ELSE "wwww" \o meetingId \o "#" \o "wwww#"
    ELSE IF passcode # "" THEN "wwww" \o passcode \o "#" ELSE "wwww"

SendDigits(meetingId, passcode) ==
    IF meetingId # ""
    THEN IF passcode # ""
         THEN "wwww" \o meetingId \o "#" \o "wwww" \o passcode \o "#"
         ELSE "wwww" \o meetingId \o "#" \o "wwww#"
    ELSE "wwww"

CallUrl(serverUrl, sessionId) == serverUrl \o TwimlPath \o <<sessionId>>

SessionRecord(req, serverUrl) ==
    [ twilioAccountSid |-> req.twilioAccountSid,
      twilioAuthToken |-> req.twilioAuthToken,
      elevenLabsApiKey |-> req.elevenLabsApiKey,
      elevenLabsAgentId |-> req.elevenLabsAgentId,
      serverUrl |-> serverUrl ]

CreateCall(req, serverUrl, sessionId) ==
    [ op |-> "create",
      accountSid |-> req.twilioAccountSid, authToken |-> req.twilioAuthToken,
      url |-> CallUrl(serverUrl, sessionId), to |-> req.zoomDialIn,
      from |-> req.twilioPhoneNumber,
      sendDigits |-> SendDigits(req.meetingId, req.passcode) ]

\* mutant: the call is placed before the session is stored
InitiateEffectsCallFirst(sessionId, due, call) ==
    << EffProvider(call), EffStore(sessionId), EffTimer(sessionId, due) >>

\* the side effects of a valid request, in program order (lines 61, 70, 88)
InitiateEffects(sessionId, due, call) ==
    << EffStore(sessionId), EffTimer(sessionId, due), EffProvider(call) >>

\* lines 38-93: the handler up to its await
InitiateCall(req) ==
    LET serverUrl == NormalizeServerUrl(req.serverUrl) IN
    IF ~IsValidRequest(req, serverUrl)
    THEN /\ io' = << EvPost("initiate-call", req),
                     EffReply("initiate-call", 400, [error |-> "All fields are required"]) >>
         /\ UNCHANGED <<sessionStore, uuidCount, timers, now, createdAt, pending, bridges>>
    ELSE LET sessionId == Uuid(uuidCount + 1)
             call == CreateCall(req, serverUrl, sessionId) IN
         /\ uuidCount < MaxSessions
         /\ uuidCount' = uuidCount + 1
         /\ sessionStore' = MapSet(sessionStore, sessionId, SessionRecord(req, serverUrl))
         /\ createdAt' = Append(createdAt, now)
         /\ timers' = timers \cup {[sid |-> sessionId, due |-> now + TTL]}
         /\ pending' = pending \cup {[sessionId |-> sessionId, call |-> call]}
         /\ io' = << EvPost("initiate-call", req) >>
                  \o InitiateEffects(sessionId, now + TTL, call)
         /\ UNCHANGED <<now, bridges>>

\* lines 95-96: calls.create resolved
CreateResolved(p, callSid) ==
    /\ p \in pending /\ p.call.op = "create"
    /\ pending' = pending \ {p}
    /\ io' = << [k |-> "answer", call |-> p.call, ok |-> TRUE],
                EffReply("initiate-call", 200,
                         [success |-> TRUE, callSid |-> callSid, sessionId |-> p.sessionId]) >>
    /\ UNCHANGED <<sessionStore, uuidCount, timers, now, createdAt, bridges>>

\* mutant: a rejected call placement is tried once more
CreateRejectedRetries(p, err) ==
    /\ p \in pending /\ p.call.op = "create"
    /\ pending' = pending
    /\ io' = << [k |-> "answer", call |-> p.call, ok |-> FALSE, err |-> err],
                EffProvider(p.call) >>
    /\ UNCHANGED <<sessionStore, uuidCount, timers, now, createdAt, bridges>>

\* lines 97-105: calls.create rejected
CreateRejected(p, err) ==
    /\ p \in pending /\ p.call.op = "create"
    /\ pending' = pending \ {p}
    /\ io' = << [k |-> "answer", call |-> p.call, ok |-> FALSE, err |-> err],
                EffReply("initiate-call", 500,
                         [error |-> "Failed to initiate call", details |-> err.message,
                          code |-> err.code]) >>
    /\ UNCHANGED <<sessionStore, uuidCount, timers, now, createdAt, bridges>>

\* mutant: the expiry callback clears the whole registry
TimerFireClearsAll(t) ==
    /\ t \in timers /\ t.due <= now
    /\ timers' = timers \ {t}
    /\ sessionStore' = <<>>
    /\ io' = << [k |-> "timeout", sid |-> t.sid] >>
    /\ UNCHANGED <<uuidCount, now, createdAt, pending, bridges>>

\* line 70: the expiry callback
TimerFire(t) ==
    /\ t \in timers /\ t.due <= now
    /\ timers' = timers \ {t}
    /\ sessionStore' = MapDelete(sessionStore, t.sid)
    /\ io' = << [k |-> "timeout", sid |-> t.sid] >>
    /\ UNCHANGED <<uuidCount, now, createdAt, pending, bridges>>

\* time passes; a due timer fires before the clock moves on
Tick ==
    /\ now < MaxTime
    /\ \A t \in timers : t.due > now
    /\ now' = now + 1
    /\ io' = << [k |-> "tick"] >>
    /\ UNCHANGED <<sessionStore, uuidCount, timers, createdAt, pending, bridges>>

(**************************** /hangup-call *********************************)
\* mutant: the loop never finds a session
FirstSessionNone(m) == <<>>

\* lines 119-123: the first entry of the Map, or null
FirstSession(m) == IF Len(m) = 0 THEN <<>> ELSE << m[1].value >>

HangupsIssued == Cardinality({p \in pending : p.call.op = "update"})

\* lines 109-131: the handler up to its await
HangupCall(callSid) ==
    LET sessionData == FirstSession(sessionStore) IN
    /\ UNCHANGED <<sessionStore, uuidCount, timers, now, createdAt, bridges>>
    /\ IF callSid = ""
       THEN /\ io' = << EvPost("hangup-call", [callSid |-> callSid]),
                        EffReply("hangup-call", 400, [error |-> "Call SID is required"]) >>
            /\ UNCHANGED pending
       ELSE IF sessionData = <<>>
       THEN /\ io' = << EvPost("hangup-call", [callSid |-> callSid]),
                        EffReply("hangup-call", 404, [error |-> "No active session found"]) >>
            /\ UNCHANGED pending
       ELSE LET call == [ op |-> "update", accountSid |-> sessionData[1].twilioAccountSid,
                          authToken |-> sessionData[1].twilioAuthToken,
                          callSid |-> callSid, status |-> "completed" ] IN
            /\ HangupsIssued < MaxHangups
            /\ pending' = pending \cup {[sessionId |-> "", call |-> call]}
            /\ io' = << EvPost("hangup-call", [callSid |-> callSid]), EffProvider(call) >>

\* lines 133-134
UpdateResolved(p) ==
    /\ p \in pending /\ p.call.op = "update"
    /\ pending' = pending \ {p}
    /\ io' = << [k |-> "answer", call |-> p.call, ok |-> TRUE],
                EffReply("hangup-call", 200, [success |-> TRUE, message |-> "Call ended"]) >>
    /\ UNCHANGED <<sessionStore, uuidCount, timers, now, createdAt, bridges>>

\* lines 135-141
UpdateRejected(p, err) ==
    /\ p \in pending /\ p.call.op = "update"
    /\ pending' = pending \ {p}
    /\ io' = << [k |-> "answer", call |-> p.call, ok |-> FALSE],
                EffReply("hangup-call", 500,
                         [error |-> "Failed to hang up call", details |-> err.message]) >>
    /\ UNCHANGED <<sessionStore, uuidCount, timers, now, createdAt, bridges>>

(***************************** /call/twiml *********************************)
\* serverUrl.replace(/^https/, 'wss')
ReplaceHttps(serverUrl) ==
    IF StartsWith(serverUrl, Https)
    THEN Wss \o SubSeq(serverUrl, Len(Https) + 1, Len(serverUrl))
    ELSE serverUrl

StreamUrl(serverUrl, sessionId) ==
    ReplaceHttps(serverUrl) \o MediaStreamPath \o <<sessionId>>

\* lines 145-164
Twiml(sessionId) ==
    /\ UNCHANGED <<sessionStore, uuidCount, timers, now, createdAt, pending, bridges>>
    /\ IF ~MapHas(sessionStore, sessionId)
       THEN io' = << EvQuery("twiml", sessionId),
                     EffReply("twiml", 404, [text |-> "Session not found"]) >>
       ELSE io' = << EvQuery("twiml", sessionId),
                     EffReply("twiml", 200,
                              [type |-> "text/xml",
                               connectStreamUrl |->
                                   StreamUrl(MapValue(sessionStore, sessionId).serverUrl,
                                             sessionId)]) >>

\* lines 167-172
CallStatus(callSid, callStatus) ==
    /\ io' = << EvPost("status", [CallSid |-> callSid, CallStatus |-> callStatus]),
                EffReply("status", 200, [status |-> "ok"]) >>
    /\ UNCHANGED <<sessionStore, uuidCount, timers, now, createdAt, pending, bridges>>

(***************************** media bridge ********************************)
\* let streamSid = null
Null == "<null>"
StreamSids == {"S1", "S2"}
Undecodable == [json |-> FALSE]

\* frames the telephony provider may send
TelFrames ==
    { Undecodable, [json |-> TRUE, event |-> "connected"], [json |-> TRUE, event |-> "stop"],
      [json |-> TRUE, event |-> "media", payload |-> "abc"] }
    \cup { [json |-> TRUE, event |-> "start", streamSid |-> s] : s \in StreamSids }

\* frames the agent platform may send (audio_base_64 "": no audio_event, or an empty one)
AgentFrames ==
    { Undecodable, [json |-> TRUE, type |-> "conversation_initiation_metadata"],
      [json |-> TRUE, type |-> "ping", event_id |-> "1"],
      [json |-> TRUE, type |-> "agent_response"] }
    \cup { [json |-> TRUE, type |-> "audio", audio_base_64 |-> a] : a \in {"", "xyz"} }

EvSocket(b, src, what) == [k |-> "event", b |-> b, src |-> src, what |-> what]
EvFrame(b, src, data) == [k |-> "frame", b |-> b, src |-> src, data |-> data]
EffTelSend(b, frame) == [k |-> "telSend", b |-> b, frame |-> frame]
EffAgentSend(b, frame) == [k |-> "agentSend", b |-> b, frame |-> frame]
EffTelClose(b) == [k |-> "telClose", b |-> b]
EffAgentClose(b) == [k |-> "agentClose", b |-> b]
EffAgentConnect(b, agentId, apiKey) ==
    [k |-> "agentConnect", b |-> b, agentId |-> agentId, apiKey |-> apiKey]
EffLogError(b, what) == [k |-> "logError", b |-> b, what |-> what]

\* WebSocket.send: only an open socket puts a frame on the wire
SocketSend(readyState, effect) == IF readyState = "OPEN" THEN <<effect>> ELSE <<>>

\* mutant: an audio event is forwarded whether or not it carries a payload
HandleElevenLabsMessageAnyAudio(message, b, telState, streamSid) ==
    IF message.type = "audio"
    THEN SocketSend(telState,
                    EffTelSend(b, [event |-> "media", streamSid |-> streamSid,
                                   media |-> [payload |-> message.audio_base_64]]))
    ELSE <<>>

\* lines 271-296
HandleElevenLabsMessage(message, b, telState, streamSid) ==
    IF message.type = "audio" /\ message.audio_base_64 # ""
    THEN SocketSend(telState,
                    EffTelSend(b, [event |-> "media", streamSid |-> streamSid,
                                   media |-> [payload |-> message.audio_base_64]]))
    ELSE <<>>

\* mutant: the upgrade handler goes on to connect the agent for an unknown session
MediaStreamConnectsAnyway(sessionId) ==
    LET b == Len(bridges) + 1 IN
    /\ Len(bridges) < MaxBridges
    /\ UNCHANGED <<sessionStore, uuidCount, timers, now, createdAt, pending>>
    /\ bridges' = Append(bridges,
           [ sessionId |-> sessionId, tel |-> "OPEN", wired |-> TRUE,
             agent |-> "CONNECTING", isElevenLabsConnected |-> FALSE,
             streamSid |-> Null, stopped |-> FALSE ])
    /\ io' = << EvSocket(b, "tel", "upgrade"), EffAgentConnect(b, "", "") >>

\* lines 176-205: the upgrade handler.  The field stopped records that a 'stop'
\* event was handled; the handlers keep no such flag and none of them reads it.
MediaStream(sessionId) ==
    LET b == Len(bridges) + 1 IN
    /\ Len(bridges) < MaxBridges
    /\ UNCHANGED <<sessionStore, uuidCount, timers, now, createdAt, pending>>
    /\ IF ~MapHas(sessionStore, sessionId)
       THEN /\ bridges' = Append(bridges,
                   [ sessionId |-> sessionId, tel |-> "CLOSING", wired |-> FALSE,
                     agent |-> "NONE", isElevenLabsConnected |-> FALSE,
                     streamSid |-> Null, stopped |-> FALSE ])
            /\ io' = << EvSocket(b, "tel", "upgrade"), EffTelClose(b) >>
       ELSE LET session == MapValue(sessionStore, sessionId) IN
            /\ bridges' = Append(bridges,
                   [ sessionId |-> sessionId, tel |-> "OPEN", wired |-> TRUE,
                     agent |-> "CONNECTING", isElevenLabsConnected |-> FALSE,
                     streamSid |-> Null, stopped |-> FALSE ])
            /\ io' = << EvSocket(b, "tel", "upgrade"),
                        EffAgentConnect(b, session.elevenLabsAgentId,
                                        session.elevenLabsApiKey) >>

Rest == <<sessionStore, uuidCount, timers, now, createdAt, pending>>

\* lines 207-210
AgentOpen(b) ==
    /\ b \in 1..Len(bridges) /\ bridges[b].agent = "CONNECTING"
    /\ bridges' = [bridges EXCEPT ![b].agent = "OPEN", ![b].isElevenLabsConnected = TRUE]
    /\ io' = << EvSocket(b, "agent", "open") >>
    /\ UNCHANGED Rest

\* lines 225-228
OnAgentClose(br) == [br EXCEPT !.agent = "CLOSED", !.isElevenLabsConnected = FALSE]

\* the connection attempt fails: 'error' (lines 221-223), then 'close'
AgentFail(b) ==
    /\ b \in 1..Len(bridges) /\ bridges[b].agent = "CONNECTING"
    /\ bridges' = [bridges EXCEPT ![b] = OnAgentClose(@)]
    /\ io' = << EvSocket(b, "agent", "error"), EffLogError(b, "ElevenLabs WebSocket error"),
                EvSocket(b, "agent", "close") >>
    /\ UNCHANGED Rest

\* the agent socket closes: the peer dropped it, or our close() completed
AgentClose(b) ==
    /\ b \in 1..Len(bridges) /\ bridges[b].agent \in {"OPEN", "CLOSING"}
    /\ bridges' = [bridges EXCEPT ![b] = OnAgentClose(@)]
    /\ io' = << EvSocket(b, "agent", "close") >>
    /\ UNCHANGED Rest

\* mutant: a frame that cannot be decoded makes the handler drop the agent socket
AgentMessageClosesOnError(b, data) ==
    /\ b \in 1..Len(bridges) /\ bridges[b].agent \in {"OPEN", "CLOSING"}
    /\ UNCHANGED <<sessionStore, uuidCount, timers, now, createdAt, pending>>
    /\ IF ~data.json
       THEN /\ bridges' = [bridges EXCEPT ![b].agent = "CLOSING"]
            /\ io' = << EvFrame(b, "agent", data), EffAgentClose(b) >>
       ELSE /\ bridges' = bridges
            /\ io' = << EvFrame(b, "agent", data) >>
                     \o HandleElevenLabsMessage(data, b, bridges[b].tel,
                                                bridges[b].streamSid)

\* lines 212-219
AgentMessage(b, data) ==
    /\ b \in 1..Len(bridges) /\ bridges[b].agent \in {"OPEN", "CLOSING"}
    /\ io' = << EvFrame(b, "agent", data) >>
             \o ( IF ~data.json
                  THEN << EffLogError(b, "Error parsing ElevenLabs message") >>
                  ELSE HandleElevenLabsMessage(data, b, bridges[b].tel,
                                               bridges[b].streamSid) )
    /\ UNCHANGED <<bridges, sessionStore, uuidCount, timers, now, createdAt, pending>>

\* mutant: only the isElevenLabsConnected flag is tested, not readyState
OnMediaFlagOnly(br, b, data) ==
    IF br.isElevenLabsConnected
    THEN << EffAgentSend(b, [user_audio_chunk |-> data.payload]) >>
    ELSE <<>>

\* mutant: media is passed on without looking at the agent connection
OnMediaUnchecked(br, b, data) == << EffAgentSend(b, [user_audio_chunk |-> data.payload]) >>

\* lines 241-248: case 'media'
OnMedia(br, b, data) ==
    IF br.isElevenLabsConnected /\ br.agent = "OPEN"
    THEN << EffAgentSend(b, [user_audio_chunk |-> data.payload]) >>
    ELSE <<>>

\* mutant: the agent socket is never closed
CloseAgentNever(br) == br

\* lines 250-255 and 262-267: elevenLabsWs.close() if it is open
CloseAgentIfOpen(br) == IF br.agent = "OPEN" THEN [br EXCEPT !.agent = "CLOSING"] ELSE br

CloseAgentEffects(br, b) == IF br.agent = "OPEN" THEN << EffAgentClose(b) >> ELSE <<>>

\* lines 231-260
TelMessage(b, message) ==
    /\ b \in 1..Len(bridges) /\ bridges[b].wired /\ bridges[b].tel = "OPEN"
    /\ UNCHANGED Rest
    /\ LET br == bridges[b] IN
       IF ~message.json
       THEN /\ io' = << EvFrame(b, "tel", message),
                        EffLogError(b, "Error parsing Twilio message") >>
            /\ UNCHANGED bridges
       ELSE CASE message.event = "start" ->
                   /\ bridges' = [bridges EXCEPT ![b].streamSid = message.streamSid]
                   /\ io' = << EvFrame(b, "tel", message) >>
              [] message.event = "media" ->
                   /\ io' = << EvFrame(b, "tel", message) >> \o OnMedia(br, b, message)
                   /\ UNCHANGED bridges
              [] message.event = "stop" ->
                   /\ bridges' = [bridges EXCEPT ![b] = [CloseAgentIfOpen(br) EXCEPT !.stopped = TRUE]]
                   /\ io' = << EvFrame(b, "tel", message) >> \o CloseAgentEffects(br, b)
              [] OTHER ->
                   /\ io' = << EvFrame(b, "tel", message) >>
                   /\ UNCHANGED bridges

\* the telephony socket closes; lines 262-267 when the handlers were registered
TelClose(b) ==
    /\ b \in 1..Len(bridges) /\ bridges[b].tel # "CLOSED"
    /\ UNCHANGED Rest
    /\ LET br == bridges[b] IN
       IF br.wired
       THEN /\ bridges' = [bridges EXCEPT ![b] = [CloseAgentIfOpen(br) EXCEPT !.tel = "CLOSED"]]
            /\ io' = << EvSocket(b, "tel", "close") >> \o CloseAgentEffects(br, b)
       ELSE /\ bridges' = [bridges EXCEPT ![b].tel = "CLOSED"]
            /\ io' = << EvSocket(b, "tel", "close") >>

(*************************** specification *********************************)
Init ==
    /\ sessionStore = <<>>
    /\ uuidCount = 0
    /\ timers = {}
    /\ now = 0
    /\ createdAt = <<>>
    /\ pending = {}
    /\ bridges = <<>>
    /\ io = <<>>

\* /initiate-call and its provider answer
CallNext(reqs) ==
    \/ \E req \in reqs : InitiateCall(req)
    \/ \E p \in pending, c \in CallSids : CreateResolved(p, c)
    \/ \E p \in pending, e \in ProviderErrors : CreateRejected(p, e)

\* session expiry and the passing of time
ExpiryNext ==
    \/ \E t \in timers : TimerFire(t)
    \/ Tick

\* /call/twiml, /call/status, /hangup-call
WebhookNext ==
    \/ \E q \in QueryIds : Twiml(q)
    \/ \E c \in CallSids, s \in {"completed"} : CallStatus(c, s)
    \/ \E c \in CallSids \cup {""} : HangupCall(c)
    \/ \E p \in pending : UpdateResolved(p)
    \/ \E p \in pending, e \in ProviderErrors : UpdateRejected(p, e)

\* /media-stream and the two sockets of each bridge
BridgeNext(telFrames, agentFrames) ==
    \/ \E q \in QueryIds : MediaStream(q)
    \/ \E b \in 1..MaxBridges : AgentOpen(b)
    \/ \E b \in 1..MaxBridges : AgentFail(b)
    \/ \E b \in 1..MaxBridges : AgentClose(b)
    \/ \E b \in 1..MaxBridges, m \in agentFrames : AgentMessage(b, m)
    \/ \E b \in 1..MaxBridges, m \in telFrames : TelMessage(b, m)
    \/ \E b \in 1..MaxBridges : TelClose(b)

\* the whole server, with two clients and the frames that change a bridge
CoreRequests ==
    { [BaseRequest EXCEPT !.twilioAccountSid = a, !.twilioAuthToken = "tok-" \o a] :
        a \in Accounts }
    \cup { [BaseRequest EXCEPT !.zoomDialIn = ""] }
CoreTelFrames ==
    { [json |-> TRUE, event |-> "start", streamSid |-> "S1"],
      [json |-> TRUE, event |-> "media", payload |-> "abc"],
      [json |-> TRUE, event |-> "stop"] }
CoreAgentFrames == { [json |-> TRUE, type |-> "audio", audio_base_64 |-> "xyz"] }

Next ==
    \/ CallNext(CoreRequests)
    \/ ExpiryNext
    \/ WebhookNext
    \/ BridgeNext(CoreTelFrames, CoreAgentFrames)

Spec == Init /\ [][Next]_vars

\* placing calls and serving their instructions, over every request body of Requests
HttpNext == CallNext(Requests) \/ \E q \in QueryIds : Twiml(q)

HttpSpec == Init /\ [][HttpNext]_vars

\* one call and its bridges, over every frame of TelFrames and AgentFrames
BridgeSpecNext ==
    \/ \E req \in {BaseRequest} : InitiateCall(req)
    \/ BridgeNext(TelFrames, AgentFrames)

BridgeSpec == Init /\ [][BridgeSpecNext]_vars

\* ws completes a close() it has started: the peer answers the close frame or
\* the library's close timer destroys the socket, and 'close' is emitted
FairBridgeSpec ==
    /\ BridgeSpec
    /\ \A b \in 1..MaxBridges :
         WF_vars(b \in 1..Len(bridges) /\ bridges[b].agent = "CLOSING" /\ AgentClose(b))

(******************************* claims ************************************)
Bridges == 1..Len(bridges)
Kinds(effects, kind) == SelectSeq(effects, LAMBDA e : e.k = kind)
IsRequest(e, op) == e.k = "request" /\ e.op = op
IsFrameFrom(e, src) == e.k = "frame" /\ e.src = src

\* the sessionId query parameter that ends a callback URL
SessionIdOfUrl(url) == url[Len(url)]

\* C1: whenever /initiate-call issues the call-placement request, the session
\* named in the request's url was stored earlier in the same handler run and is in
\* the registry; and the sessionId of the 200 reply is the id in the url of the
\* call it answers.
C1_SessionStoredBeforeCall ==
    [][ /\ \A i \in 1..Len(io') :
             (io'[i].k = "provider" /\ io'[i].call.op = "create") =>
                 LET sid == SessionIdOfUrl(io'[i].call.url) IN
                 /\ \E j \in 1..(i - 1) : io'[j] = EffStore(sid)
                 /\ ~MapHas(sessionStore, sid)
                 /\ MapHas(sessionStore', sid)
                 /\ \E p \in pending' : p.call = io'[i].call /\ p.sessionId = sid
        /\ (io'[1].k = "answer" /\ io'[1].ok /\ io'[1].call.op = "create") =>
                 /\ io'[2].code = 200
                 /\ io'[2].body.sessionId = SessionIdOfUrl(io'[1].call.url)
      ]_vars

C1_Witness ==
    /\ Len(io) = 2 /\ io[1].k = "answer" /\ io[1].ok /\ io[1].call.op = "create"
    /\ io[2].body.sessionId = Uuid(2)

\* C2: when the agent socket closes (a failed connection attempt included) while
\* the telephony socket is open, the telephony socket is closed by that handler.
C2_AgentCloseClosesTelephony ==
    [][ \A b \in Bridges :
          ( bridges[b].agent # "CLOSED" /\ bridges'[b].agent = "CLOSED"
            /\ bridges[b].tel = "OPEN" ) => bridges'[b].tel # "OPEN"
      ]_vars

\* C3: when the telephony socket closes while the agent socket is open, the
\* handler calls close() on the agent socket, and the agent socket ends up closed.
C3_TelephonyCloseClosesAgent ==
    /\ [][ \A b \in Bridges :
             ( bridges[b].tel = "OPEN" /\ bridges'[b].tel = "CLOSED"
               /\ bridges[b].agent = "OPEN" ) =>
                 /\ bridges'[b].agent = "CLOSING"
                 /\ Kinds(io', "agentClose") = << EffAgentClose(b) >>
         ]_vars
    /\ \A b \in 1..MaxBridges :
         ( b \in Bridges /\ bridges[b].tel = "CLOSED" /\ bridges[b].agent = "CLOSING" )
             ~> ( b \in Bridges /\ bridges[b].agent = "CLOSED" )

C3_Witness ==
    \E b \in Bridges :
        /\ bridges[b].tel = "CLOSED" /\ bridges[b].agent = "CLOSING"
        /\ io = << EvSocket(b, "tel", "close"), EffAgentClose(b) >>

\* C4: every media frame sent to the telephony socket carries a stream identifier
\* captured from a start event: never the unset (null) one.
C4_FramesCarryStreamSid ==
    \A i \in 1..Len(io) :
        io[i].k = "telSend" =>
            /\ io[i].frame.streamSid # Null
            /\ io[i].frame.streamSid = bridges[io[i].b].streamSid

\* C5: a session stored at time T is in the registry at every time before
\* T + TTL and at no time after T + TTL, whatever else was done in between.
C5_SessionLivesOneTtl ==
    \A n \in 1..uuidCount :
        /\ now < createdAt[n] + TTL => MapHas(sessionStore, Uuid(n))
        /\ now > createdAt[n] + TTL => ~MapHas(sessionStore, Uuid(n))

C5_Witness ==
    /\ uuidCount = 2
    /\ now > createdAt[1] + TTL /\ ~MapHas(sessionStore, Uuid(1))
    /\ now < createdAt[2] + TTL /\ MapHas(sessionStore, Uuid(2))

\* C6: for a session id that is not in the registry, /call/twiml answers 404 and
\* the media-stream upgrade closes the telephony socket at once; neither changes
\* the registry, and no agent socket is opened and no frame is sent for such a
\* bridge, then or later.
C6_UnknownSessionFailsClosed ==
    [][ /\ ( IsRequest(io'[1], "twiml") /\ ~MapHas(sessionStore, io'[1].sessionId) ) =>
              /\ io' = << io'[1], EffReply("twiml", 404, [text |-> "Session not found"]) >>
              /\ UNCHANGED <<sessionStore, uuidCount, timers, pending, bridges>>
        /\ ( io'[1].k = "event" /\ io'[1].what = "upgrade"
             /\ ~MapHas(sessionStore, bridges'[io'[1].b].sessionId) ) =>
              LET b == io'[1].b IN
              /\ io' = << io'[1], EffTelClose(b) >>
              /\ bridges'[b].tel = "CLOSING" /\ bridges'[b].agent = "NONE"
              /\ SubSeq(bridges', 1, Len(bridges)) = bridges
              /\ UNCHANGED <<sessionStore, uuidCount, timers, pending>>
        /\ \A b \in Bridges : ~bridges[b].wired =>
              /\ bridges'[b].agent = "NONE" /\ bridges'[b].tel # "OPEN"
              /\ \A i \in 1..Len(io') :
                    io'[i].k \in {"telSend", "agentSend", "agentConnect"} => io'[i].b # b
      ]_vars

C6_Witness ==
    \E b \in Bridges :
        /\ uuidCount >= 1 /\ now > createdAt[1] + TTL /\ ~MapHas(sessionStore, Uuid(1))
        /\ bridges[b].sessionId = Uuid(1) /\ ~bridges[b].wired
        /\ io = << EvSocket(b, "tel", "upgrade"), EffTelClose(b) >>

\* the letters a scheme is made of
SchemeChars ==
    { "a", "b", "c", "d", "e", "f", "g", "h", "i", "j", "k", "l", "m",
      "n", "o", "p", "q", "r", "s", "t", "u", "v", "w", "x", "y", "z" }
SchemeAt(s, i) ==
    /\ i >= 2 /\ i + 2 <= Len(s) /\ SubSeq(s, i, i + 2) = SchemeSep
    /\ \A j \in 1..(i - 1) : s[j] \in SchemeChars
HasScheme(s) == \E i \in 1..Len(s) : SchemeAt(s, i)
HostOf(s) ==
    IF HasScheme(s)
    THEN SubSeq(s, (CHOOSE i \in 1..Len(s) : SchemeAt(s, i)) + 3, Len(s))
    ELSE s

\* C7: the document /call/twiml builds for a stored session names the stream url
\* wss://<callback host>/media-stream?sessionId=<the id looked up>.
C7_StreamUrlIsWss ==
    ( Len(io) = 2 /\ IsRequest(io[1], "twiml") /\ io[2].code = 200 ) =>
        io[2].body.connectStreamUrl =
            Wss \o SchemeSep \o HostOf(MapValue(sessionStore, io[1].sessionId).serverUrl)
                \o MediaStreamPath \o << io[1].sessionId >>

\* C8: the serverUrl of every session in the registry carries an explicit scheme.
C8_StoredUrlHasScheme ==
    \A i \in 1..Len(sessionStore) : HasScheme(sessionStore[i].value.serverUrl)

C11_UndecodableFrameDropped ==
    [][ \A b \in Bridges :
          ( io'[1].k = "frame" /\ io'[1].b = b /\ ~io'[1].data.json ) =>
              /\ io' = << io'[1],
                          EffLogError(b, IF io'[1].src = "tel"
                                         THEN "Error parsing Twilio message"
                                         ELSE "Error parsing ElevenLabs message") >>
              /\ bridges' = bridges
      ]_vars

C11_Witness ==
    \E b \in Bridges :
        /\ bridges[b].agent = "OPEN" /\ bridges[b].tel = "OPEN"
        /\ bridges[b].streamSid = "S1"
        /\ io = << EvFrame(b, "agent", Undecodable),
                   EffLogError(b, "Error parsing ElevenLabs message") >>

\* some required field of the body is missing or empty
HasBlankField(body) == body.serverUrl = <<>> \/ \E f \in RequiredFields : body[f] = ""

C13_SendDigits ==
    [][ ( IsRequest(io'[1], "initiate-call") /\ Len(Kinds(io', "provider")) > 0 ) =>
            LET req == io'[1].body
                digits == Kinds(io', "provider")[1].call.sendDigits IN
            /\ req.meetingId = "" => digits = "wwww"
            /\ (req.meetingId = "1234" /\ req.passcode = "56") => digits = "wwww1234#wwww56#"
            /\ (req.meetingId = "1234" /\ req.passcode = "") => digits = "wwww1234#wwww#"
      ]_vars

C13_Witness ==
    /\ Len(io) > 0 /\ IsRequest(io[1], "initiate-call") /\ io[1].body.meetingId = ""
    /\ io[1].body.passcode = "56"
    /\ Len(Kinds(io, "provider")) = 1
    /\ Kinds(io, "provider")[1].call.sendDigits = "wwww"

SessionCredentials(m) ==
    { [accountSid |-> m[i].value.twilioAccountSid, authToken |-> m[i].value.twilioAuthToken] :
        i \in 1..Len(m) }

\* what the claim says of a /hangup-call request that is past the call-handle check
HangupOutcome(s, s2, effects) ==
    IF Len(s) = 0
    THEN /\ Len(effects) = 2 /\ effects[2].k = "reply" /\ effects[2].code = 404
         /\ s2 = s
    ELSE /\ Len(effects) = 2 /\ effects[2].k = "provider"
         /\ effects[2].call.op = "update"
         /\ effects[2].call.callSid = effects[1].body.callSid
         /\ effects[2].call.status = "completed"
         /\ [accountSid |-> effects[2].call.accountSid,
             authToken |-> effects[2].call.authToken] \in SessionCredentials(s)
         /\ s2 = s

\* C14 as stated: every /hangup-call request is answered 404 exactly when the
\* registry is empty, and otherwise issues exactly one termination request with
\* the credentials of a registered session, the registry unchanged.
C14_AsStated ==
    [][ IsRequest(io'[1], "hangup-call") => HangupOutcome(sessionStore, sessionStore', io')
      ]_vars

\* C14, amended: that holds of every /hangup-call request that carries a call
\* handle; a request without one is answered 400 and issues no request, whatever
\* the registry holds.
C14_Hangup ==
    [][ IsRequest(io'[1], "hangup-call") =>
          IF io'[1].body.callSid # ""
          THEN HangupOutcome(sessionStore, sessionStore', io')
          ELSE /\ Len(io') = 2 /\ io'[2].k = "reply" /\ io'[2].code = 400
               /\ UNCHANGED <<sessionStore, pending>>
      ]_vars

C14_Witness ==
    /\ Len(io) = 2 /\ IsRequest(io[1], "hangup-call") /\ io[2].k = "provider"
    /\ Len(sessionStore) = 2

\* C15: a valid /initiate-call request issues exactly one call-placement request;
\* when the provider rejects it the client is answered 500 with the provider's
\* code and message, and the request is not issued again; nothing but a valid
\* /initiate-call request issues a call-placement request.
C15_OneCallPlacement ==
    [][ /\ ( IsRequest(io'[1], "initiate-call") /\ ~HasBlankField(io'[1].body) ) =>
              /\ Len(Kinds(io', "provider")) = 1
              /\ Kinds(io', "provider")[1].call.op = "create"
        /\ ( io'[1].k = "answer" /\ ~io'[1].ok /\ io'[1].call.op = "create" ) =>
              /\ io' = << io'[1],
                          EffReply("initiate-call", 500,
                                   [error |-> "Failed to initiate call",
                                    details |-> io'[1].err.message,
                                    code |-> io'[1].err.code]) >>
              /\ pending' \subseteq pending
        /\ \A i \in 1..Len(io') :
              ( io'[i].k = "provider" /\ io'[i].call.op = "create" ) =>
                  ( IsRequest(io'[1], "initiate-call") /\ ~HasBlankField(io'[1].body) )
      ]_vars

C15_Witness ==
    /\ Len(io) = 2 /\ io[1].k = "answer" /\ ~io[1].ok /\ io[1].call.op = "create"
    /\ io[2].code = 500 /\ io[2].body.code = "21211"

\* C16: a stored session record keeps every field from its creation to its
\* deletion, whatever operation runs.
C16_SessionImmutable ==
    [][ \A k \in MapKeys(sessionStore) \cap MapKeys(sessionStore') :
            MapValue(sessionStore', k) = MapValue(sessionStore, k) ]_vars

C16_Witness ==
    /\ Len(sessionStore) = 2
    /\ \E b \in Bridges :
          /\ bridges[b].wired /\ MapHas(sessionStore, bridges[b].sessionId)
          /\ Len(io) > 0 /\ io[1].k = "frame" /\ io[1].b = b

\* C17: a bridge never has a closed telephony socket and an open agent socket.
C17_NoOpenAgentBehindClosedTelephony ==
    \A b \in Bridges : ~( bridges[b].tel = "CLOSED" /\ bridges[b].agent = "OPEN" )

C19_NoMediaAfterStop ==
    \A i \in 1..Len(io) : io[i].k = "agentSend" => ~bridges[io[i].b].stopped

\* C20: hangup uses the credentials of the most recently created session of the
\* registry.
C20_HangupUsesLatestSession ==
    ( Len(io) = 2 /\ IsRequest(io[1], "hangup-call") /\ io[2].k = "provider" ) =>
        /\ io[2].call.accountSid = sessionStore[Len(sessionStore)].value.twilioAccountSid
        /\ io[2].call.authToken = sessionStore[Len(sessionStore)].value.twilioAuthToken

====
